---- MODULE Spec2Model ----
(***************************************************************************)
(* Model of Bun::PhonyWorkQueue (webcrypto/PhonyWorkQueue.cpp).             *)
(*                                                                         *)
(*   Ref<PhonyWorkQueue> PhonyWorkQueue::create(WTF::ASCIILiteral name)     *)
(*   void PhonyWorkQueue::dispatch(WTF::Function<void()>&& function)        *)
(*                                                                         *)
(* Caller threads create dispatchers, share and release their handles and  *)
(* dispatch deferred computations.  dispatch is modelled statement by      *)
(* statement (the `new EventLoopTaskNoContext(WTFMove(function))`          *)
(* expression, the call of ConcurrentCppTask__createAndRun, the return),    *)
(* so that the calls of several threads interleave.  The reference count   *)
(* behind WTF::Ref and the facility behind ConcurrentCppTask__createAndRun  *)
(* are not part of PhonyWorkQueue.cpp; they are modelled from the          *)
(* description of the component (a handle shared by its holders; a task    *)
(* run once, at some later point, in no particular order, then discarded). *)
(***************************************************************************)
EXTENDS Naturals, Sequences, FiniteSets

(* ---- bounds of the model ---- *)
\* deferred computations built over a run (one per dispatch call)
MaxFns == 2
\* PhonyWorkQueue objects allocated over a run
MaxQueues == 2

\* two caller threads, each with one Ref<PhonyWorkQueue> variable
Threads == {1, 2}
QueueIds == 1..MaxQueues
FnIds == 1..MaxFns

\* the labels handed to create
Names == {"A", "B"}

VARIABLES
    queues,     \* heap of PhonyWorkQueue objects: id -> [state, refCount]
    label,      \* history: the name argument each live object was created with
    destroys,   \* history: how many times each object's destructor ran
    handle,     \* per thread: its Ref<PhonyWorkQueue> (0: holds none)
    fnQueue,    \* per computation: the dispatcher it was handed to
                \* (0: the computation is not built yet)
    callerFn,   \* per thread: the WTF::Function<void()> object it passes
                \* to dispatch (0: empty)
    arg,        \* history, per thread: the computation its running dispatch
                \* call was given (0: no call is running)
    pc,         \* per thread: position inside dispatch
    newTask,    \* per thread: the EventLoopTaskNoContext* it allocated
    ret,        \* what the dispatch call that returned last gave back
    tasks,      \* heap of EventLoopTaskNoContext objects: [fn, state], the
                \* wrapper made for computation c being object c
    calls,      \* log of the calls of ConcurrentCppTask__createAndRun
    executed,   \* per computation: how many times it has been run
    ranOn       \* per computation: where it ran ("none", "pool", "caller")

vars == <<queues, label, destroys, handle, fnQueue, callerFn, arg, pc,
          newTask, ret, tasks, calls, executed, ranOn>>

queueVars == <<queues, label, destroys, handle>>
threadVars == <<arg, pc, newTask, ret>>
facilityVars == <<executed, ranOn>>

NoQueue == [state |-> "unallocated", refCount |-> 0]
NoTask == [fn |-> 0, state |-> "unallocated"]

Init ==
    /\ queues = [q \in QueueIds |-> NoQueue]
    /\ label = [q \in QueueIds |-> "none"]
    /\ destroys = [q \in QueueIds |-> 0]
    /\ handle = [t \in Threads |-> 0]
    /\ fnQueue = [c \in FnIds |-> 0]
    /\ callerFn = [t \in Threads |-> 0]
    /\ arg = [t \in Threads |-> 0]
    /\ pc = [t \in Threads |-> "idle"]
    /\ newTask = [t \in Threads |-> 0]
    /\ ret = "none"
    /\ tasks = [k \in FnIds |-> NoTask]
    /\ calls = <<>>
    /\ executed = [c \in FnIds |-> 0]
    /\ ranOn = [c \in FnIds |-> "none"]

(* ---- PhonyWorkQueue::create ---- *)

\* faulty create: the object keeps the name it was given
NewPhonyWorkQueue_Named(name) ==
    [state |-> "alive", refCount |-> 1, name |-> name]

\* faulty create: Ref(*new PhonyWorkQueue) without adoptRef counts the one
\* handle twice
NewPhonyWorkQueue_Leak(name) == [state |-> "alive", refCount |-> 2]

\* the object `adoptRef(*new PhonyWorkQueue)` yields: a fresh object whose
\* reference count is the 1 it is constructed with; `name` is not used
NewPhonyWorkQueue(name) == [state |-> "alive", refCount |-> 1]

\* thread t:  handle = PhonyWorkQueue::create(name);
Create(t, name) ==
    /\ pc[t] = "idle"
    /\ handle[t] = 0
    /\ \E q \in QueueIds :
        /\ queues[q].state = "unallocated"
        /\ \A p \in QueueIds : p < q => queues[p].state # "unallocated"
        /\ queues' = [queues EXCEPT ![q] = NewPhonyWorkQueue(name)]
        /\ label' = [label EXCEPT ![q] = name]
        /\ handle' = [handle EXCEPT ![t] = q]
    /\ UNCHANGED <<destroys, fnQueue, callerFn, threadVars, tasks, calls,
                   facilityVars>>

(* ---- WTF::Ref copy and release (RefCounted::ref / deref) ---- *)

\* thread t copies its handle into the empty handle of thread u
RefCopy(t, u) ==
    /\ handle[t] # 0
    /\ handle[u] = 0
    /\ queues' = [queues EXCEPT ![handle[t]].refCount = @ + 1]
    /\ handle' = [handle EXCEPT ![u] = handle[t]]
    /\ UNCHANGED <<label, destroys, fnQueue, callerFn, threadVars, tasks, calls,
                   facilityVars>>

\* thread t drops its handle; the last one destroys the object
Release(t) ==
    /\ pc[t] = "idle"
    /\ handle[t] # 0
    /\ handle' = [handle EXCEPT ![t] = 0]
    /\ IF queues[handle[t]].refCount = 1
         THEN /\ queues' = [queues EXCEPT ![handle[t]] =
                                [state |-> "destroyed", refCount |-> 0]]
              /\ destroys' = [destroys EXCEPT ![handle[t]] = @ + 1]
              /\ label' = [label EXCEPT ![handle[t]] = "none"]
         ELSE /\ queues' = [queues EXCEPT ![handle[t]].refCount = @ - 1]
              /\ UNCHANGED <<destroys, label>>
    /\ UNCHANGED <<fnQueue, callerFn, threadVars, tasks, calls,
                   facilityVars>>

(* ---- PhonyWorkQueue::dispatch ---- *)

\* thread t:  handle->dispatch([...] { body });  the caller builds the
\* computation and enters dispatch; `function` refers to the caller's object
DispatchCall(t) ==
    /\ pc[t] = "idle"
    /\ handle[t] # 0
    /\ \E c \in FnIds :
        /\ fnQueue[c] = 0
        /\ \A d \in FnIds : d < c => fnQueue[d] # 0
        /\ fnQueue' = [fnQueue EXCEPT ![c] = handle[t]]
        /\ callerFn' = [callerFn EXCEPT ![t] = c]
        /\ arg' = [arg EXCEPT ![t] = c]
    /\ pc' = [pc EXCEPT ![t] = "new"]
    /\ UNCHANGED <<queueVars, newTask, ret, tasks, calls, facilityVars>>

\* faulty dispatch: the computation is copied, not moved, into the wrapper
DispatchNew_Copy(t) ==
    /\ pc[t] = "new"
    /\ tasks' = [tasks EXCEPT ![callerFn[t]] =
                       [fn |-> callerFn[t], state |-> "allocated"]]
    /\ newTask' = [newTask EXCEPT ![t] = callerFn[t]]
    /\ pc' = [pc EXCEPT ![t] = "forward"]
    /\ UNCHANGED <<queueVars, fnQueue, callerFn, arg, ret, calls,
                   facilityVars>>

\* faulty dispatch: the dispatcher protects itself with a reference it
\* never gives back
DispatchNew_SelfRef(t) ==
    /\ pc[t] = "new"
    /\ tasks' = [tasks EXCEPT ![callerFn[t]] =
                       [fn |-> callerFn[t], state |-> "allocated"]]
    /\ newTask' = [newTask EXCEPT ![t] = callerFn[t]]
    /\ callerFn' = [callerFn EXCEPT ![t] = 0]
    /\ pc' = [pc EXCEPT ![t] = "forward"]
    /\ queues' = [queues EXCEPT ![handle[t]].refCount = @ + 1]
    /\ UNCHANGED <<label, destroys, handle, fnQueue, arg, ret, calls,
                   facilityVars>>

\* faulty dispatch: a lock in the dispatcher lets one call at a time past
\* the entry
DispatchNew_Locked(t) ==
    /\ pc[t] = "new"
    /\ \A u \in Threads \ {t} :
          handle[u] = handle[t] => pc[u] \notin {"forward", "return"}
    /\ tasks' = [tasks EXCEPT ![callerFn[t]] =
                       [fn |-> callerFn[t], state |-> "allocated"]]
    /\ newTask' = [newTask EXCEPT ![t] = callerFn[t]]
    /\ callerFn' = [callerFn EXCEPT ![t] = 0]
    /\ pc' = [pc EXCEPT ![t] = "forward"]
    /\ UNCHANGED <<queueVars, fnQueue, arg, ret, calls, facilityVars>>

\* new EventLoopTaskNoContext(WTFMove(function)): the computation is moved
\* out of the caller's object into the freshly allocated task wrapper
DispatchNew(t) ==
    /\ pc[t] = "new"
    /\ tasks' = [tasks EXCEPT ![callerFn[t]] =
                       [fn |-> callerFn[t], state |-> "allocated"]]
    /\ newTask' = [newTask EXCEPT ![t] = callerFn[t]]
    /\ callerFn' = [callerFn EXCEPT ![t] = 0]
    /\ pc' = [pc EXCEPT ![t] = "forward"]
    /\ UNCHANGED <<queueVars, fnQueue, arg, ret, calls, facilityVars>>

\* faulty dispatch: the facility is called twice with the same wrapper
DispatchForward_Twice(t) ==
    /\ pc[t] = "forward"
    /\ calls' = calls \o << [task |-> newTask[t], fn |-> tasks[newTask[t]].fn],
                           [task |-> newTask[t], fn |-> tasks[newTask[t]].fn] >>
    /\ tasks' = [tasks EXCEPT ![newTask[t]].state = "pending"]
    /\ pc' = [pc EXCEPT ![t] = "return"]
    /\ UNCHANGED <<queueVars, fnQueue, callerFn, arg, newTask, ret,
                   facilityVars>>

\* faulty dispatch: the computation is run in place, on the caller's thread
DispatchForward_Sync(t) ==
    /\ pc[t] = "forward"
    /\ calls' = Append(calls, [task |-> newTask[t],
                               fn |-> tasks[newTask[t]].fn])
    /\ tasks' = [tasks EXCEPT ![newTask[t]].state = "executed"]
    /\ executed' = [executed EXCEPT ![tasks[newTask[t]].fn] = @ + 1]
    /\ ranOn' = [ranOn EXCEPT ![tasks[newTask[t]].fn] = "caller"]
    /\ pc' = [pc EXCEPT ![t] = "return"]
    /\ UNCHANGED <<queueVars, fnQueue, callerFn, arg, newTask, ret>>

\* faulty dispatch: the wrapper is built and never handed to the facility
DispatchForward_Dropped(t) ==
    /\ pc[t] = "forward"
    /\ pc' = [pc EXCEPT ![t] = "return"]
    /\ UNCHANGED <<queueVars, fnQueue, callerFn, arg, newTask, ret, tasks,
                   calls, facilityVars>>

\* faulty dispatch: a task is handed over only once the ones handed over
\* before it are done
DispatchForward_Serial(t) ==
    /\ pc[t] = "forward"
    /\ \A i \in DOMAIN calls : tasks[calls[i].task].state = "deleted"
    /\ calls' = Append(calls, [task |-> newTask[t],
                               fn |-> tasks[newTask[t]].fn])
    /\ tasks' = [tasks EXCEPT ![newTask[t]].state = "pending"]
    /\ pc' = [pc EXCEPT ![t] = "return"]
    /\ UNCHANGED <<queueVars, fnQueue, callerFn, arg, newTask, ret,
                   facilityVars>>

\* ConcurrentCppTask__createAndRun(task): the one call of the facility,
\* which takes the task wrapper for a later run
DispatchForward(t) ==
    /\ pc[t] = "forward"
    /\ calls' = Append(calls, [task |-> newTask[t],
                               fn |-> tasks[newTask[t]].fn])
    /\ tasks' = [tasks EXCEPT ![newTask[t]].state = "pending"]
    /\ pc' = [pc EXCEPT ![t] = "return"]
    /\ UNCHANGED <<queueVars, fnQueue, callerFn, arg, newTask, ret,
                   facilityVars>>

\* faulty dispatch: the outcome of the task is handed back to the caller
DispatchReturn_Status(t) ==
    /\ pc[t] = "return"
    /\ ret' = IF tasks[newTask[t]].state = "failed" THEN "error" ELSE "void"
    /\ pc' = [pc EXCEPT ![t] = "idle"]
    /\ newTask' = [newTask EXCEPT ![t] = 0]
    /\ arg' = [arg EXCEPT ![t] = 0]
    /\ UNCHANGED <<queueVars, fnQueue, callerFn, tasks, calls, facilityVars>>

\* the closing brace: dispatch is void
DispatchReturn(t) ==
    /\ pc[t] = "return"
    /\ ret' = "void"
    /\ pc' = [pc EXCEPT ![t] = "idle"]
    /\ newTask' = [newTask EXCEPT ![t] = 0]
    /\ arg' = [arg EXCEPT ![t] = 0]
    /\ UNCHANGED <<queueVars, fnQueue, callerFn, tasks, calls, facilityVars>>

(* ---- the facility behind ConcurrentCppTask__createAndRun ---- *)

\* a pool thread picks any task the facility was handed and starts it
FacilityStart(k) ==
    /\ tasks[k].state = "pending"
    /\ tasks' = [tasks EXCEPT ![k].state = "running"]
    /\ executed' = [executed EXCEPT ![tasks[k].fn] = @ + 1]
    /\ ranOn' = [ranOn EXCEPT ![tasks[k].fn] = "pool"]
    /\ UNCHANGED <<queueVars, fnQueue, callerFn, threadVars, calls>>

\* the computation ends, normally or not; a failure stays with the facility
FacilityFinish(k, ok) ==
    /\ tasks[k].state = "running"
    /\ tasks' = [tasks EXCEPT
                   ![k].state = IF ok THEN "executed" ELSE "failed"]
    /\ UNCHANGED <<queueVars, fnQueue, callerFn, threadVars, calls,
                   facilityVars>>

\* the task wrapper, and the computation in it, is deleted after its run
FacilityDiscard(k) ==
    /\ tasks[k].state \in {"executed", "failed"}
    /\ tasks' = [tasks EXCEPT ![k].state = "deleted"]
    /\ UNCHANGED <<queueVars, fnQueue, callerFn, threadVars, calls,
                   facilityVars>>

Next ==
    \/ \E t \in Threads, name \in Names : Create(t, name)
    \/ \E t \in Threads, u \in Threads : RefCopy(t, u)
    \/ \E t \in Threads : Release(t)
    \/ \E t \in Threads : DispatchCall(t)
    \/ \E t \in Threads : DispatchNew(t)
    \/ \E t \in Threads : DispatchForward(t)
    \/ \E t \in Threads : DispatchReturn(t)
    \/ \E k \in FnIds : FacilityStart(k)
    \/ \E k \in FnIds, ok \in BOOLEAN : FacilityFinish(k, ok)
    \/ \E k \in FnIds : FacilityDiscard(k)

Spec == Init /\ [][Next]_vars

\* the facility's pool keeps running the tasks it holds
FairSpec ==
    /\ Spec
    /\ \A k \in FnIds :
        /\ WF_vars(FacilityStart(k))
        /\ WF_vars(\E ok \in BOOLEAN : FacilityFinish(k, ok))
        /\ WF_vars(FacilityDiscard(k))

(* ---- vocabulary of the properties ---- *)

\* the computation has been built and given to a dispatch call
Built(c) == fnQueue[c] # 0

\* the dispatch call the computation was given to has returned
Returned(c) == Built(c) /\ \A t \in Threads : arg[t] # c

\* the dispatch call the computation was given to is past its one statement
PastForward(c) ==
    Built(c) /\ \A t \in Threads : arg[t] = c => pc[t] = "return"

\* the calls of the facility that carried computation c
CallsOf(c) == {i \in DOMAIN calls : calls[i].fn = c}

\* the threads that hold a handle to dispatcher q
Holders(q) == {t \in Threads : handle[t] = q}

\* who owns computation c: a caller's Function object, or a live wrapper
Owners(c) ==
    {<<"caller", t>> : t \in {u \in Threads : callerFn[u] = c}}
      \cup {<<"task", k>> : k \in {j \in FnIds :
                /\ tasks[j].fn = c
                /\ tasks[j].state \notin {"unallocated", "deleted"}}}

\* created (1), in a task wrapper (2), executed (3), discarded (4)
Stage(c) ==
    IF ~Built(c) THEN 0
    ELSE CASE tasks[c].state = "unallocated" -> 1
           [] tasks[c].state \in {"allocated", "pending"} -> 2
           [] tasks[c].state \in {"running", "executed", "failed"} -> 3
           [] tasks[c].state = "deleted" -> 4

\* a PhonyWorkQueue object has its reference count and nothing else
NoMembers(q) == DOMAIN queues[q] = {"state", "refCount"}

(* ---- C1 ---- *)

ForwardedOnce ==
    /\ \A c \in FnIds :
         Cardinality(CallsOf(c)) = IF PastForward(c) THEN 1 ELSE 0
    /\ Len(calls) = Cardinality({c \in FnIds : PastForward(c)})
    /\ \A i \in DOMAIN calls :
         /\ calls[i].fn \in FnIds
         /\ Built(calls[i].fn)
         /\ tasks[calls[i].task].fn = calls[i].fn

ForwardedInOrder ==
    \/ calls' = calls
    \/ \E t \in Threads :
         /\ pc[t] = "forward"
         /\ pc'[t] = "return"
         /\ Len(calls') = Len(calls) + 1
         /\ SubSeq(calls', 1, Len(calls)) = calls
         /\ calls'[Len(calls')].fn = arg[t]

\* C1: every dispatch call makes exactly one call of
\* ConcurrentCppTask__createAndRun, with a wrapper of the computation it was
\* given: a computation is in the log once its call is past the forwarding
\* statement and not before, the log holds nothing else, and the log grows
\* only at its end, by the call being made, so that the calls of the facility
\* follow the order of dispatch calls made one after the other.
C1_ExactlyOnePerCall == []ForwardedOnce /\ [][ForwardedInOrder]_vars

\* two dispatch calls have been made and have returned
C1_Witness ==
    /\ Len(calls) >= 2
    /\ \A t \in Threads : pc[t] = "idle"

(* ---- C2 ---- *)

\* C2: dispatch never runs the computation itself (whatever has run, ran on
\* the facility's pool, and nothing a thread is still forwarding has run),
\* and its return waits for nothing: a call past the forwarding statement can
\* return whatever state its task is in.
C2_NotSynchronous ==
    /\ \A c \in FnIds : ranOn[c] # "caller"
    /\ \A c \in FnIds : executed[c] > 0 => PastForward(c)
    /\ \A t \in Threads : pc[t] = "return" => ENABLED DispatchReturn(t)

\* a dispatch call has returned and its computation has not started
C2_Witness ==
    \E c \in FnIds :
        /\ Returned(c)
        /\ tasks[c].state = "pending"
        /\ executed[c] = 0

(* ---- C3 ---- *)

\* C3: a computation that exists has exactly one owner: the caller until the
\* wrapper is built, the wrapper from then on, never the dispatcher (which
\* has no member to hold it); once discarded it has none; and no computation
\* is run more than once.
C3_OneOwner ==
    /\ \A c \in FnIds :
         /\ Stage(c) = 0 => Owners(c) = {}
         /\ Stage(c) = 1 => \E t \in Threads : Owners(c) = {<<"caller", t>>}
         /\ Stage(c) \in {2, 3} => Owners(c) = {<<"task", c>>}
         /\ Stage(c) = 4 => Owners(c) = {}
         /\ executed[c] <= 1
    /\ \A q \in QueueIds : NoMembers(q)

\* a computation handed over by its caller is running, owned by its wrapper
C3_Witness ==
    \E c \in FnIds :
        /\ tasks[c].state = "running"
        /\ executed[c] = 1
        /\ Owners(c) = {<<"task", c>>}

(* ---- C4 ---- *)

LifecycleStep == \A c \in FnIds : Stage(c)' \in {Stage(c), Stage(c) + 1}

\* C4: a computation moves through created, wrapped, executed, discarded one
\* stage at a time and never back, a discarded one has been run exactly once,
\* and, the facility's pool being fair, every computation whose dispatch call
\* has returned is eventually run once and discarded.
C4_Lifecycle ==
    /\ [][LifecycleStep]_vars
    /\ [](\A c \in FnIds : Stage(c) = 4 => executed[c] = 1)
    /\ \A c \in FnIds : Returned(c) ~> (Stage(c) = 4 /\ executed[c] = 1)

\* a dispatched computation has been run once and discarded
C4_Witness ==
    \E c \in FnIds : Returned(c) /\ Stage(c) = 4 /\ executed[c] = 1

(* ---- C5 ---- *)

\* the dispatch calls made on q, and the calls of the facility made by them
InputsOf(q) == {c \in FnIds : fnQueue[c] = q}
ForwardsOf(q) == {i \in DOMAIN calls : fnQueue[calls[i].fn] = q}
Quiescent(q) == \A t \in Holders(q) : pc[t] = "idle"

DispatchStep == \E t \in Threads : pc'[t] # pc[t]

\* C6: a step of dispatch changes no dispatcher (not the one called, not any
\* other), no handle, no wrapper the facility was handed before and no
\* record of a run; it stores nothing in the dispatcher; the log of calls
\* of the facility grows by one entry at most.
C6_Frame ==
    [][DispatchStep =>
         /\ UNCHANGED <<queues, label, destroys, handle, executed, ranOn>>
         /\ \A q \in QueueIds : NoMembers(q)'
         /\ \A i \in DOMAIN calls : tasks'[calls[i].task] = tasks[calls[i].task]
         /\ \/ calls' = calls
            \/ /\ Len(calls') = Len(calls) + 1
               /\ SubSeq(calls', 1, Len(calls)) = calls]_vars

\* a dispatch call has made its call of the facility while another
\* dispatcher exists and an earlier task is with the facility
C6_Witness ==
    \E t \in Threads, u \in Threads :
        /\ pc[t] = "return"
        /\ handle[u] # 0
        /\ handle[u] # handle[t]
        /\ Len(calls) = 2

(* ---- C7 ---- *)

\* C7: the object is alive exactly while some handle to it is held, its
\* reference count is the number of handles (one right after create), and
\* its destructor has run once if it is destroyed and not at all otherwise.
C7_SharedHandle ==
    \A q \in QueueIds :
        /\ queues[q].state = "alive" <=> Holders(q) # {}
        /\ queues[q].refCount = Cardinality(Holders(q))
        /\ destroys[q] = IF queues[q].state = "destroyed" THEN 1 ELSE 0

\* one dispatcher has been destroyed by its last holder, another is shared
\* by two holders
C7_Witness ==
    \E q1 \in QueueIds, q2 \in QueueIds :
        /\ queues[q1].state = "destroyed"
        /\ Cardinality(Holders(q2)) = 2

(* ---- C8 ---- *)

FailureStep ==
    \E k \in FnIds : tasks[k].state # "failed" /\ tasks'[k].state = "failed"

C9_Independent ==
    /\ \A t \in Threads :
         /\ pc[t] = "new" => ENABLED DispatchNew(t)
         /\ pc[t] = "forward" => ENABLED DispatchForward(t)
         /\ pc[t] = "return" => ENABLED DispatchReturn(t)
    /\ \A t \in Threads :
         /\ pc[t] = "new" => callerFn[t] = arg[t] /\ CallsOf(arg[t]) = {}
         /\ pc[t] = "forward" =>
              /\ tasks[newTask[t]].fn = arg[t]
              /\ CallsOf(arg[t]) = {}
         /\ pc[t] = "return" =>
              /\ tasks[newTask[t]].fn = arg[t]
              /\ \E i \in DOMAIN calls :
                   /\ CallsOf(arg[t]) = {i}
                   /\ calls[i].task = newTask[t]
    /\ \A t \in Threads, u \in Threads :
         (t # u /\ newTask[t] # 0) => newTask[t] # newTask[u]

\* two threads are inside dispatch on the same dispatcher, one of them past
\* the entry
C9_Witness ==
    \E t \in Threads, u \in Threads :
        /\ t # u
        /\ handle[t] = handle[u]
        /\ pc[t] = "new"
        /\ pc[u] = "forward"

(* ---- C10 ---- *)

\* C10: nothing orders the runs: a task the facility holds can start
\* whatever the state of the tasks handed over before or after it, and a
\* dispatch call can hand its task over whatever the state of the earlier
\* ones; the hand-over itself is in the order of the calls (C1).
C10_NoOrdering ==
    /\ \A k \in FnIds : tasks[k].state = "pending" => ENABLED FacilityStart(k)
    /\ \A t \in Threads : pc[t] = "forward" => ENABLED DispatchForward(t)

\* B was handed over after A, and is running while A is still waiting
C10_Witness ==
    \E i \in DOMAIN calls, j \in DOMAIN calls :
        /\ i < j
        /\ tasks[calls[i].task].state = "pending"
        /\ tasks[calls[j].task].state = "running"

====
